---- MODULE Spec2Model ----
(***************************************************************************)
(* State-machine model of CRAB_Model (src/model.py): construction, the     *)
(* firm lifecycle operations add_firm / remove_firm / add_subsidiary and   *)
(* the step driver.  The staged scheduler, the government and the agent    *)
(* classes are collaborators that model.py only calls; they are modelled   *)
(* from their documented contract.                                         *)
(***************************************************************************)
EXTENDS Integers, Sequences, FiniteSets, TLC

(* ------------------------------ bounds -------------------------------- *)

\* Number of capital firms per region (N_FIRMS[0][CapitalFirm] is 125).
NumCapitalFirms == 2
\* Number of consumption-good firms per region (200 in the source).
NumConsumptionGoodFirms == 1
\* Number of service firms per region (300 in the source).
NumServiceFirms == 1
\* Number of households per region (10000 in the source).
NumHouseholds == 1
\* Base seeds tried at construction.
Seeds == {0, 1}
\* Number of values a modelled generator can return (its resolution).
RngRange == 16
\* Steps the driver takes in the specification with firm turnover.
MaxTime == 1
\* Steps the driver takes in the specification with mid-stage entry.
MaxEntryTime == 2
\* Firms that enter while a stage runs.
MaxEntrants == 1
\* Firms created after construction (subsidiaries and mid-stage entrants).
MaxNewFirms == 2
\* Steps the driver takes in the specification of the flood schedule.
FloodHorizon == 82
\* Lifecycle operations called from outside step().
MaxCalls == 2
\* Steps the driver takes in the specification with outside calls.
MaxCallTime == 1

(* ----------------------- module-level constants ----------------------- *)

N_REGIONS == 1

REGIONS == 0 .. (N_REGIONS - 1)

FIRM_TYPES == <<"CapitalFirm", "ConsumptionGoodFirm", "ServiceFirm">>

FirmTypeSet == {FIRM_TYPES[i] : i \in 1 .. Len(FIRM_TYPES)}

N_FIRMS == [r \in REGIONS |->
              [t \in FirmTypeSet |->
                 CASE t = "CapitalFirm" -> NumCapitalFirms
                   [] t = "ConsumptionGoodFirm" -> NumConsumptionGoodFirms
                   [] OTHER -> NumServiceFirms]]

N_HOUSEHOLDS == [r \in REGIONS |-> NumHouseholds]

FLOOD_WHEN == (40 :> 1000) @@ (80 :> 100)

\* stages = ["stage1", ..., "stage8"]
N_STAGES == 8

\* agent_types = list(N_FIRMS[0].keys()) + [Household] + [Government]
AGENT_TYPES == FIRM_TYPES \o <<"Household", "Government">>

AgentTypeSet == {AGENT_TYPES[i] : i \in 1 .. Len(AGENT_TYPES)}

StreamKeys == AgentTypeSet \cup {"Adaptation"}

\* isinstance(firm, CapitalFirm)
IsCapitalFirm(t) == t = "CapitalFirm"

\* isinstance(firm, ConsumptionFirm): the base class of the
\* consumption-good and the service firms.
IsConsumptionFirm(t) == t \in {"ConsumptionGoodFirm", "ServiceFirm"}

(* ------------------------------ amounts ------------------------------- *)

\* Net worths are kept as integers in units of 1/(10 * RngRange), the
\* common denominator of max(avg_net_worth, 1) * (0.8 * u + 0.1) for a
\* uniform draw u = d / RngRange.
NW_SCALE == 10 * RngRange

Money(x) == x * NW_SCALE

Max(a, b) == IF a >= b THEN a ELSE b

\* INIT_NET_WORTH
INIT_NET_WORTH == [t \in FirmTypeSet |->
                     CASE t = "CapitalFirm" -> Money(150)
                       [] t = "ConsumptionGoodFirm" -> Money(20)
                       [] OTHER -> Money(50)]

\* Values the government's average net worth takes (whole units).
AvgNetWorths == {-5, 0, 4}

\* Net worths (whole units) with which a firm is declared bankrupt.
BankruptNetWorths == {-10}

(* ----------------------- pseudorandom generators ---------------------- *)

\* One transition of a generator: a linear congruential step.
LcgNext(x) == (5 * x + 3) % RngRange

\* np.random.default_rng(seed)
SeededGenerator(seed) == [seed |-> seed, state |-> seed % RngRange]

RECURSIVE DrawsFrom(_, _)
\* The next n values of a generator in state x.
DrawsFrom(x, n) ==
  IF n = 0 THEN <<>> ELSE <<LcgNext(x)>> \o DrawsFrom(LcgNext(x), n - 1)

\* The first n values a generator seeded with `seed` returns when nothing
\* else draws from it.
ReferenceDraws(seed, n) == DrawsFrom(SeededGenerator(seed).state, n)

\* Position of an agent type in the enumeration order (0-based).
TypeIndex(t) == (CHOOSE i \in 1 .. Len(AGENT_TYPES) : AGENT_TYPES[i] = t) - 1

\* Seed of the i-th agent type's stream: random_seed + i.
TypeSeed(s, i) == s + i

\* Seed of the adaptation stream: random_seed + i + 1 with i left at the
\* last index of the enumeration.
AdaptationSeedShared(s) == s + (Len(AGENT_TYPES) - 1)

AdaptationSeed(s) == s + (Len(AGENT_TYPES) - 1) + 1

\* The generator object a stream key refers to: every key has its own.
GeneratorShared(key) == "CapitalFirm"

Generator(key) == key

(* ------------------------------- state -------------------------------- *)

VARIABLES
  random_seed,      \* the base seed given to __init__
  RNGs,             \* generator object -> [seed, state]
  drawn,            \* stream key -> the values drawn through that key so far
  current_id,       \* the last agent id handed out
  agent,            \* agent id -> the agent object's fields
  firms,            \* self.firms[region][firm_type]: list of firm ids
  households,       \* self.households[region]: list of household ids
  governments,      \* self.governments[region]: the government's fields
  sched,            \* self.schedule: agent type -> list of registered ids
  time,             \* self.schedule.time
  firms_to_remove,  \* self.firms_to_remove[region]: pending-removal queue
  flood_now,        \* self.flood_now ("unset" before the first step)
  flood_return,     \* self.flood_return ("unset" before the first step)
  phase,            \* where step() is: idle, schedule, drain, collect
  stage,            \* the stage schedule.step() is running (1..N_STAGES)
  todo,             \* agents of the running stage still to execute
  drain_region,     \* the region whose queue is being drained
  drain_pos,        \* index of the queued firm being processed
  drain_pc,         \* within one queued firm: remove, then add
  collected,        \* number of rows the data collector holds
  pre_drain,        \* firm counts per region and type when the drain began
  stage_log,        \* agent id -> when it was added, and its first stage run
  call              \* the last lifecycle operation called, and how it ended

rngVars == <<random_seed, RNGs, drawn>>

agentVars == <<current_id, agent, firms, households, sched, stage_log>>

govVars == <<governments>>

floodVars == <<flood_now, flood_return>>

stepVars == <<phase, stage, todo, time>>

drainVars == <<drain_region, drain_pos, drain_pc, pre_drain>>

vars == <<rngVars, agentVars, govVars, floodVars, stepVars, drainVars,
          firms_to_remove, collected, call>>

(* --------------------------- small helpers ---------------------------- *)

SeqToSet(s) == {s[i] : i \in 1 .. Len(s)}

RECURSIVE SumSeq(_)
SumSeq(s) == IF s = <<>> THEN 0 ELSE Head(s) + SumSeq(Tail(s))

\* list.remove(x): drops the first occurrence of x.
RemoveFirst(s, x) ==
  LET i == CHOOSE k \in 1 .. Len(s) : s[k] = x /\ \A j \in 1 .. (k - 1) : s[j] # x
  IN  SubSeq(s, 1, i - 1) \o SubSeq(s, i + 1, Len(s))

RECURSIVE Flatten(_)
Flatten(ss) == IF ss = <<>> THEN <<>> ELSE Head(ss) \o Flatten(Tail(ss))

Repeat(x, n) == [i \in 1 .. n |-> x]

(* ---------------------------- construction ---------------------------- *)

\* One draw through a stream key: the key's generator advances and the
\* value is handed to the caller.
DrawOne(st, key) ==
  LET g == Generator(key)
      v == LcgNext(st.rngs[g].state)
  IN  [rngs  |-> [st.rngs EXCEPT ![g].state = v],
       drawn |-> [st.drawn EXCEPT ![key] = Append(@, v)]]

RECURSIVE DrawSeq(_, _)
DrawSeq(st, keys) ==
  IF keys = <<>> THEN st ELSE DrawSeq(DrawOne(st, Head(keys)), Tail(keys))

\* self.RNGs as __init__ seeds it.
SeededRNGs(s) ==
  [k \in StreamKeys |->
     IF k = "Adaptation" THEN SeededGenerator(AdaptationSeed(s))
     ELSE SeededGenerator(TypeSeed(s, TypeIndex(k)))]

\* The stream keys __init__ draws through, in order: one sample per firm
\* of each type, one per household, then one supplier choice per capital
\* firm.
InitDrawKeys ==
  Flatten([i \in 1 .. Len(FIRM_TYPES) |-> Repeat(FIRM_TYPES[i], N_FIRMS[0][FIRM_TYPES[i]])])
    \o Repeat("Household", N_HOUSEHOLDS[0])
    \o Repeat("CapitalFirm", N_FIRMS[0]["CapitalFirm"])

InitRngState(s) ==
  DrawSeq([rngs |-> SeededRNGs(s), drawn |-> [k \in StreamKeys |-> <<>>]],
          InitDrawKeys)

\* Ids are handed out in creation order: firms by type, households, then
\* the government.
InitFirmCount == SumSeq([i \in 1 .. Len(FIRM_TYPES) |-> N_FIRMS[0][FIRM_TYPES[i]]])

FirstIdOf(t) ==
  SumSeq([i \in 1 .. TypeIndex(t) |-> N_FIRMS[0][FIRM_TYPES[i]]])

InitFirmIds(t) == [i \in 1 .. N_FIRMS[0][t] |-> FirstIdOf(t) + i]

InitHouseholdIds == [i \in 1 .. N_HOUSEHOLDS[0] |-> InitFirmCount + i]

InitGovernmentId == InitFirmCount + N_HOUSEHOLDS[0] + 1

InitTypeOf(id) ==
  IF id = InitGovernmentId THEN "Government"
  ELSE IF id > InitFirmCount THEN "Household"
  ELSE CHOOSE t \in FirmTypeSet : id \in SeqToSet(InitFirmIds(t))

\* firm.supplier = self.RNGs[type(firm)].choice(cap_firms) for the j-th
\* capital firm: the draw that follows the capital firms' sampling draws.
InitSupplier(st, j) ==
  LET n == N_FIRMS[0]["CapitalFirm"]
  IN  InitFirmIds("CapitalFirm")[(st.drawn["CapitalFirm"][n + j] % n) + 1]

\* supplier.brochure: the terms a capital firm publishes.
Brochure(supplier) == <<"brochure", supplier>>

\* {supplier: supplier.brochure}
OffersFrom(supplier) == supplier :> Brochure(supplier)

\* The fields of an agent that is not a firm.
PlainAgent(t, r) ==
  [type |-> t, region |-> r, net_worth |-> 0, market_share |-> <<0, 1>>,
   supplier |-> 0, offers |-> <<>>, clients |-> <<>>, parent |-> 0]

InitAgent(st, id) ==
  LET t == InitTypeOf(id) IN
  IF ~(t \in FirmTypeSet) THEN PlainAgent(t, 0)
  ELSE [type |-> t, region |-> 0,
        net_worth |-> INIT_NET_WORTH[t],
        market_share |-> <<1, N_FIRMS[0][t]>>,
        supplier |-> IF IsCapitalFirm(t) THEN InitSupplier(st, id - FirstIdOf(t)) ELSE 0,
        offers |-> IF IsCapitalFirm(t)
                   THEN OffersFrom(InitSupplier(st, id - FirstIdOf(t)))
                   ELSE <<>>,
        clients |-> IF IsCapitalFirm(t)
                    THEN SelectSeq(InitFirmIds(t),
                                   LAMBDA c : InitSupplier(st, c - FirstIdOf(t)) = id)
                    ELSE <<>>,
        parent |-> 0]

\* Government(self, region): both per-step counters start at zero.
NewGovernment(id) ==
  [id |-> id, avg_net_worth |-> 0, bailout_cost |-> 0, new_firms_resources |-> 0]

\* No lifecycle operation has been called yet.
NoCall ==
  [n |-> 0, direct |-> 0, op |-> "none", firm |-> 0, best_cap |-> 0,
   raised |-> "none"]

FirmCounts == [r \in REGIONS |-> [t \in FirmTypeSet |-> Len(firms[r][t])]]

Init ==
  /\ random_seed \in Seeds
  /\ LET st == InitRngState(random_seed) IN
       /\ RNGs = st.rngs
       /\ drawn = st.drawn
       /\ agent = [id \in 1 .. InitGovernmentId |-> InitAgent(st, id)]
  /\ current_id = InitGovernmentId
  /\ firms = [r \in REGIONS |-> [t \in FirmTypeSet |-> InitFirmIds(t)]]
  /\ households = [r \in REGIONS |-> InitHouseholdIds]
  /\ governments = [r \in REGIONS |-> NewGovernment(InitGovernmentId)]
  /\ sched = [t \in AgentTypeSet |->
                IF t \in FirmTypeSet THEN InitFirmIds(t)
                ELSE IF t = "Household" THEN InitHouseholdIds
                ELSE <<InitGovernmentId>>]
  /\ time = 0
  /\ firms_to_remove = [r \in REGIONS |-> <<>>]
  /\ flood_now = "unset"
  /\ flood_return = "unset"
  /\ phase = "idle"
  /\ stage = 1
  /\ todo = <<>>
  /\ drain_region = 0
  /\ drain_pos = 1
  /\ drain_pc = "remove"
  /\ collected = 0
  /\ pre_drain = [r \in REGIONS |-> [t \in FirmTypeSet |-> N_FIRMS[r][t]]]
  /\ stage_log = [id \in 1 .. InitGovernmentId |-> [added |-> <<0, 0>>, first |-> <<>>]]
  /\ call = NoCall

(* ------------------------- lifecycle operations ------------------------ *)

TypeOf(id) == agent[id].type

RegionOf(id) == agent[id].region

\* The scheduler's step(): each stage runs over the membership as it was
\* when the stage began, type bucket after type bucket.
Snapshot(members) ==
  Flatten([i \in 1 .. Len(AGENT_TYPES) |-> members[AGENT_TYPES[i]]])

\* The agents still to run in the current stage after an agent was added
\* while the stage runs: the snapshot does not grow.
PendingAfterAddLive(pending, id) == Append(pending, id)

PendingAfterAdd(pending, id) == pending

\* schedule.add(agent)
ScheduleAdd(members, id, t) == [members EXCEPT ![t] = Append(@, id)]

\* schedule.remove(agent)
ScheduleRemove(members, id, t) == [members EXCEPT ![t] = RemoveFirst(@, id)]

Registered(id) == id \in SeqToSet(sched[TypeOf(id)])

\* The stage that follows stage k of step t.
NextStage(at) ==
  IF at[2] = N_STAGES THEN <<at[1] + 1, 1>> ELSE <<at[1], at[2] + 1>>

\* The slot an agent is added in: stage k of step t while the scheduler
\* runs, and the gap before stage 1 of the coming step otherwise.
AddedAt == IF phase = "schedule" THEN <<time, stage>> ELSE <<time, 0>>

\* market_share = 1 / N_FIRMS[firm.region][CapitalFirm]
CapitalShareOfCurrentCount(r) == <<1, Len(firms[r]["CapitalFirm"])>>

CapitalShare(r) == <<1, N_FIRMS[r]["CapitalFirm"]>>

\* net_worth = max(gov.avg_net_worth, 1) * fraction_wealth, with
\* fraction_wealth = (0.9 - 0.1) * u + 0.1 and u = d / RngRange.
SubsidiaryNetWorthNoFloor(avg, d) == avg * (8 * d + RngRange)

SubsidiaryNetWorth(avg, d) == Max(avg, 1) * (8 * d + RngRange)

\* self.RNGs[type(firm)]: the stream add_subsidiary draws from.
StreamOfCapital(f) == "CapitalFirm"

StreamOf(f) == TypeOf(f)

\* type(firm)(...): the class of the subsidiary.
SubsidiaryTypeCapital(f) == "CapitalFirm"

SubsidiaryType(f) == TypeOf(f)

\* bailout_cost += firm.net_worth
BailoutAfterMinus(cost, net_worth) == cost - net_worth

BailoutAfter(cost, net_worth) == cost + net_worth

\* gov.get_best_cap(): one of the region's registered capital firms, here
\* the longest or the most recently registered one.
BestCapChoices(r) ==
  LET caps == firms[r]["CapitalFirm"] IN
  IF caps = <<>> THEN {} ELSE {caps[1], caps[Len(caps)]}

\* The record of a lifecycle operation that has just run.
Called(op, f, best_cap, raised) ==
  [n |-> call.n + 1,
   direct |-> IF phase = "idle" THEN call.direct + 1 ELSE call.direct,
   op |-> op, firm |-> f, best_cap |-> best_cap, raised |-> raised]

\* add_firm(firm_class, region, **kwargs)
add_firm(t, r, share, net_worth) ==
  LET id == current_id + 1 IN
  /\ current_id' = id
  /\ agent' = (id :> [type |-> t, region |-> r, net_worth |-> net_worth,
                      market_share |-> share, supplier |-> 0, offers |-> <<>>,
                      clients |-> <<>>, parent |-> 0]) @@ agent
  /\ firms' = [firms EXCEPT ![r][t] = Append(@, id)]
  /\ sched' = ScheduleAdd(sched, id, t)
  /\ call' = Called("add_firm", id, 0, "none")

\* self.firms[firm.region][type(firm)].remove(firm)
BucketAfterRemoveKept(bucket, f) == bucket

BucketAfterRemove(bucket, f) == RemoveFirst(bucket, f)

InBucket(f) == f \in SeqToSet(firms[RegionOf(f)][TypeOf(f)])

\* How remove_firm(firm) ends: list.remove raises ValueError for a firm
\* that is not in its bucket, and schedule.remove a lookup error for an
\* agent the scheduler does not hold.
remove_firm_silent(f) == "none"

remove_firm_raised(f) ==
  IF ~InBucket(f) THEN "ValueError"
  ELSE IF ~Registered(f) THEN "LookupError"
  ELSE "none"

\* remove_firm(firm), for a firm of one of the firm types.  The bailout
\* cost is charged before the firm is looked up, so also when the lookup
\* fails.
remove_firm(f) ==
  LET r == RegionOf(f)
      t == TypeOf(f)
  IN  /\ governments' = [governments EXCEPT
                           ![r].bailout_cost = BailoutAfter(@, agent[f].net_worth)]
      /\ firms' = IF InBucket(f)
                  THEN [firms EXCEPT ![r][t] = BucketAfterRemove(@, f)]
                  ELSE firms
      /\ sched' = IF InBucket(f) /\ Registered(f)
                  THEN ScheduleRemove(sched, f, t)
                  ELSE sched
      /\ call' = Called("remove_firm", f, 0, remove_firm_raised(f))

\* The errors add_subsidiary can end with for an agent that is neither a
\* capital nor a consumption firm: the ValueError of its last branch, or
\* the error of an earlier lookup on the government or the agent.
OtherTypeErrors == {"ValueError", "KeyError", "AttributeError"}

\* Whether add_subsidiary reaches one of its two creating branches.
SubsidiaryCreated(t) == IsCapitalFirm(t) \/ IsConsumptionFirm(t)

\* gov.new_firms_resources when add_subsidiary raises: the counter is
\* charged on the last line alone.
ResourcesChargedBeforeRaise(resources, avg) == resources + Money(avg)

ResourcesAfterRaise(resources, avg) == resources

\* gov.new_firms_resources += gov.avg_net_worth
ResourcesAfterNetWorth(resources, avg, net_worth) == resources + net_worth

ResourcesAfter(resources, avg, net_worth) == resources + Money(avg)

\* sub.supplier = best_cap
SubsidiarySupplierInherited(best_cap, f) == agent[f].supplier

SubsidiarySupplier(best_cap, f) == best_cap

\* add_subsidiary(firm)
add_subsidiary(f) ==
  LET r   == RegionOf(f)
      gov == governments[r]
      key == StreamOf(f)
      t   == SubsidiaryType(f)
      st0 == [rngs |-> RNGs, drawn |-> drawn]
      st1 == DrawOne(st0, key)
      d1  == st1.rngs[Generator(key)].state
      \* the capital branch draws once more, for the historical productivity
      st2 == IF IsCapitalFirm(TypeOf(f)) THEN DrawOne(st1, key) ELSE st1
      id  == current_id + 1
      net_worth == SubsidiaryNetWorth(gov.avg_net_worth, d1)
  IN  \E best_cap \in BestCapChoices(r) :
        IF SubsidiaryCreated(TypeOf(f))
        THEN LET supplier == SubsidiarySupplier(best_cap, f) IN
             /\ agent' = (id :> [type |-> t, region |-> r,
                                 net_worth |-> net_worth,
                                 market_share |-> IF IsCapitalFirm(TypeOf(f))
                                                  THEN CapitalShare(r) ELSE <<0, 1>>,
                                 supplier |-> supplier,
                                 offers |-> OffersFrom(supplier),
                                 clients |-> <<>>,
                                 parent |-> f])
                         @@ [agent EXCEPT ![supplier].clients = Append(@, id)]
             /\ RNGs' = st2.rngs
             /\ drawn' = st2.drawn
             /\ current_id' = id
             /\ firms' = [firms EXCEPT ![r][t] = Append(@, id)]
             /\ sched' = ScheduleAdd(sched, id, t)
             /\ governments' = [governments EXCEPT
                                  ![r].new_firms_resources =
                                     ResourcesAfter(@, gov.avg_net_worth, net_worth)]
             /\ call' = Called("add_subsidiary", f, best_cap, "none")
        ELSE /\ RNGs' = st1.rngs
             /\ drawn' = st1.drawn
             /\ governments' = [governments EXCEPT
                                  ![r].new_firms_resources =
                                     ResourcesAfterRaise(@, gov.avg_net_worth)]
             /\ \E e \in OtherTypeErrors :
                  call' = Called("add_subsidiary", f, best_cap, e)
             /\ UNCHANGED <<agent, current_id, firms, sched>>

(* ------------------------------ step() -------------------------------- *)

\* The flood flag and return period step() sets from the time index.
ShockStateSticky(t) ==
  IF t \in DOMAIN FLOOD_WHEN
  THEN [now |-> TRUE, return |-> FLOOD_WHEN[t]]
  ELSE IF t = 0
       THEN [now |-> FALSE, return |-> 0]
       ELSE [now |-> flood_now, return |-> flood_return]

ShockState(t) ==
  IF t \in DOMAIN FLOOD_WHEN
  THEN [now |-> TRUE, return |-> FLOOD_WHEN[t]]
  ELSE [now |-> FALSE, return |-> 0]

\* The order of the phases of step() after the shock is determined.
PhaseAfterScheduleCollect == "collect"

PhaseAfterSchedule == "drain"

PhaseAfterDrain == "collect"

\* The drain loop runs once schedule.step() has returned.
DrainRunsWhenQueued ==
  \/ phase = "drain"
  \/ phase = "schedule" /\ firms_to_remove[drain_region] # <<>>

DrainRuns == phase = "drain"

\* for firm in self.firms_to_remove[region]: the loop is over when every
\* queued firm has been processed.
QueueDrainedEarly(r) == drain_pos > 1 \/ firms_to_remove[r] = <<>>

QueueDrained(r) == drain_pos > Len(firms_to_remove[r])

\* bailout_cost = 0 and new_firms_resources = 0
CountersResetBailoutOnly(gov) == [gov EXCEPT !.bailout_cost = 0]

CountersReset(gov) == [gov EXCEPT !.bailout_cost = 0, !.new_firms_resources = 0]

\* self.firms_to_remove[region] = []
QueueAfterDrainKept(queue) == queue

QueueAfterDrain(queue) == <<>>

\* The log of when agents were added and of their first stage run.
LogRun(log, id) ==
  IF Registered(id) /\ log[id].first = <<>>
  THEN [log EXCEPT ![id].first = <<time, stage>>]
  ELSE log

RECURSIVE LogRunAll(_, _)
LogRunAll(log, ids) ==
  IF ids = <<>> THEN log ELSE LogRunAll(LogRun(log, Head(ids)), Tail(ids))

LogAdd(log, id) == (id :> [added |-> AddedAt, first |-> <<>>]) @@ log

NewFirmsSoFar == current_id - InitGovernmentId

RECURSIVE SumOver(_, _)
SumOver(f, S) ==
  IF S = {} THEN 0
  ELSE LET x == CHOOSE y \in S : TRUE IN f[x] + SumOver(f, S \ {x})

Queued == SumOver([r \in REGIONS |-> Len(firms_to_remove[r])], REGIONS)

\* step(), lines 298-304 and the entry into schedule.step()
StepShock(horizon) ==
  /\ phase = "idle"
  /\ time < horizon
  /\ flood_now' = ShockState(time).now
  /\ flood_return' = ShockState(time).return
  /\ phase' = "schedule"
  /\ stage' = 1
  /\ todo' = Snapshot(sched)
  /\ UNCHANGED <<rngVars, agentVars, govVars, drainVars, firms_to_remove,
                 collected, time, call>>

\* Agents run their behaviour for the current stage in the order of the
\* stage's list.  A behaviour that touches neither the registry, the queues
\* nor the government is not an action of its own: the actions below let
\* any number of agents at the head of the list run that way before the
\* agent they are about, and the end of a stage lets the rest run so.

\* A firm detects its bankruptcy in a stage and queues itself for removal.
Bankrupt(limit) ==
  /\ phase = "schedule"
  /\ \E i \in 1 .. Len(todo) :
       LET f == todo[i] IN
       /\ TypeOf(f) \in FirmTypeSet
       /\ Registered(f)
       /\ \A r \in REGIONS : ~(f \in SeqToSet(firms_to_remove[r]))
       /\ NewFirmsSoFar + Queued < limit
       /\ \E nw \in BankruptNetWorths :
            agent' = [agent EXCEPT ![f].net_worth = Money(nw)]
       /\ firms_to_remove' = [firms_to_remove EXCEPT ![RegionOf(f)] = Append(@, f)]
       /\ stage_log' = LogRunAll(stage_log, SubSeq(todo, 1, i))
       /\ todo' = SubSeq(todo, i + 1, Len(todo))
  /\ UNCHANGED <<rngVars, current_id, firms, households, sched, govVars,
                 floodVars, phase, stage, time, drainVars, collected, call>>

FirmBankrupt == Bankrupt(MaxNewFirms)

\* The same with fewer bankruptcies, for runs over more steps.
FirmBankruptFew == Bankrupt(MaxEntrants)

\* The government recomputes its regional aggregates.  The average net
\* worth is read by add_subsidiary alone, after the scheduler has returned,
\* so the recomputation is placed in the last stage, which leaves every
\* value possible when the drain begins.
GovAggregate ==
  /\ phase = "schedule"
  /\ stage = N_STAGES
  /\ \E i \in 1 .. Len(todo) :
       LET g == todo[i] IN
       /\ TypeOf(g) = "Government"
       /\ \E avg \in AvgNetWorths \ {governments[RegionOf(g)].avg_net_worth} :
            governments' = [governments EXCEPT ![RegionOf(g)].avg_net_worth = avg]
       /\ stage_log' = LogRunAll(stage_log, SubSeq(todo, 1, i))
       /\ todo' = SubSeq(todo, i + 1, Len(todo))
  /\ UNCHANGED <<rngVars, current_id, agent, firms, households, sched,
                 floodVars, phase, stage, time, drainVars, firms_to_remove,
                 collected, call>>

\* An agent's stage behaviour creates a firm through add_firm while the
\* stage runs.
FirmEntry ==
  /\ phase = "schedule"
  /\ NewFirmsSoFar < MaxEntrants
  /\ \E i \in 1 .. Len(todo) :
       /\ Registered(todo[i])
       /\ \E t \in FirmTypeSet :
            add_firm(t, RegionOf(todo[i]), <<0, 1>>, INIT_NET_WORTH[t])
       /\ stage_log' = LogAdd(LogRunAll(stage_log, SubSeq(todo, 1, i)), current_id + 1)
       /\ todo' = PendingAfterAdd(SubSeq(todo, i + 1, Len(todo)), current_id + 1)
  /\ UNCHANGED <<rngVars, households, govVars, floodVars, phase, stage, time,
                 drainVars, firms_to_remove, collected>>

\* schedule.step() finishes a stage (the agents left in its list run
\* without effect) and moves on to the next stage.
StageEnd ==
  /\ phase = "schedule"
  /\ stage < N_STAGES
  /\ stage' = stage + 1
  /\ stage_log' = LogRunAll(stage_log, todo)
  /\ todo' = Snapshot(sched)
  /\ UNCHANGED <<rngVars, current_id, agent, firms, households, sched,
                 govVars, floodVars, phase, time, drainVars, firms_to_remove,
                 collected, call>>

\* schedule.step() finishes the last stage and returns: the time counter
\* advances and step() reaches the drain loop.
ScheduleEnd ==
  /\ phase = "schedule"
  /\ stage = N_STAGES
  /\ stage_log' = LogRunAll(stage_log, todo)
  /\ todo' = <<>>
  /\ time' = time + 1
  /\ phase' = PhaseAfterSchedule
  /\ pre_drain' = FirmCounts
  /\ UNCHANGED <<rngVars, current_id, agent, firms, households, sched,
                 govVars, floodVars, stage, drain_region, drain_pos, drain_pc,
                 firms_to_remove, collected, call>>

\* One iteration of the drain loop, first half: remove_firm(firm).  An
\* error of remove_firm leaves step() at once.
DrainRemove ==
  /\ DrainRuns
  /\ drain_pc = "remove"
  /\ ~QueueDrained(drain_region)
  /\ LET f == firms_to_remove[drain_region][drain_pos] IN
       /\ remove_firm(f)
       /\ IF remove_firm_raised(f) = "none"
          THEN drain_pc' = "add" /\ phase' = phase
          ELSE drain_pc' = drain_pc /\ phase' = "aborted"
  /\ UNCHANGED <<rngVars, current_id, agent, households, stage_log, floodVars,
                 stage, todo, time, drain_region, drain_pos, pre_drain,
                 firms_to_remove, collected>>

\* One iteration of the drain loop, second half: add_subsidiary(firm).
DrainAddSubsidiary ==
  /\ DrainRuns
  /\ drain_pc = "add"
  /\ LET f == firms_to_remove[drain_region][drain_pos] IN
       /\ add_subsidiary(f)
       /\ IF SubsidiaryCreated(TypeOf(f))
          THEN /\ stage_log' = LogAdd(stage_log, current_id + 1)
               /\ drain_pc' = "remove"
               /\ drain_pos' = drain_pos + 1
               /\ phase' = phase
          ELSE /\ phase' = "aborted"
               /\ UNCHANGED <<stage_log, drain_pc, drain_pos>>
  /\ UNCHANGED <<random_seed, households, floodVars, stage, todo, time,
                 drain_region, pre_drain, firms_to_remove, collected>>

\* The region's queue is exhausted: the government's counters are reset,
\* the queue is emptied, and the loop goes on to the next region.
DrainReset ==
  /\ DrainRuns
  /\ drain_pc = "remove"
  /\ QueueDrained(drain_region)
  /\ governments' = [governments EXCEPT ![drain_region] = CountersReset(@)]
  /\ firms_to_remove' = [firms_to_remove EXCEPT ![drain_region] = QueueAfterDrain(@)]
  /\ drain_pos' = 1
  /\ IF drain_region + 1 \in REGIONS
     THEN drain_region' = drain_region + 1 /\ phase' = phase
     ELSE drain_region' = 0 /\ phase' = PhaseAfterDrain
  /\ UNCHANGED <<rngVars, agentVars, floodVars, stage, todo, time, drain_pc,
                 pre_drain, collected, call>>

\* self.datacollector.collect(self)
Collect ==
  /\ phase = "collect"
  /\ collected' = collected + 1
  /\ phase' = "idle"
  /\ UNCHANGED <<rngVars, agentVars, govVars, floodVars, stage, todo, time,
                 drainVars, firms_to_remove, call>>

\* The lifecycle operations are public methods: a caller may use them
\* directly while step() is not running.  The calls explored are those made
\* once the driver has taken its steps.
CallsAllowed == phase = "idle" /\ time = MaxCallTime /\ call.direct < MaxCalls

FirmIds == {id \in DOMAIN agent : TypeOf(id) \in FirmTypeSet}

CallAddFirm ==
  /\ CallsAllowed
  /\ \E t \in FirmTypeSet, r \in REGIONS :
       add_firm(t, r, <<0, 1>>, INIT_NET_WORTH[t])
  /\ stage_log' = LogAdd(stage_log, current_id + 1)
  /\ UNCHANGED <<rngVars, households, govVars, floodVars, stepVars, drainVars,
                 firms_to_remove, collected>>

\* remove_firm(firm) for any firm, also one that was removed before.
CallRemoveFirm ==
  /\ CallsAllowed
  /\ \E f \in FirmIds : remove_firm(f)
  /\ UNCHANGED <<rngVars, current_id, agent, households, stage_log, floodVars,
                 stepVars, drainVars, firms_to_remove, collected>>

\* add_subsidiary(agent) for any agent, also one that is not a firm.
CallAddSubsidiary ==
  /\ CallsAllowed
  /\ \E f \in DOMAIN agent :
       /\ add_subsidiary(f)
       /\ stage_log' = IF SubsidiaryCreated(TypeOf(f))
                       THEN LogAdd(stage_log, current_id + 1)
                       ELSE stage_log
  /\ UNCHANGED <<random_seed, households, floodVars, stepVars, drainVars,
                 firms_to_remove, collected>>

(* --------------------------- specifications --------------------------- *)

\* Firms go bankrupt in the stages and are replaced in the drain.
Next ==
  \/ StepShock(MaxTime)
  \/ FirmBankrupt
  \/ GovAggregate
  \/ StageEnd
  \/ ScheduleEnd
  \/ DrainRemove
  \/ DrainAddSubsidiary
  \/ DrainReset
  \/ Collect

Spec == Init /\ [][Next]_vars

\* Stage behaviours create firms through add_firm while a stage runs.
NextEntry ==
  \/ StepShock(MaxEntryTime)
  \/ FirmEntry
  \/ StageEnd
  \/ ScheduleEnd
  \/ DrainReset
  \/ Collect

SpecEntry == Init /\ [][NextEntry]_vars

\* The driver run over the whole flood schedule, with no firm turnover.
NextFlood ==
  \/ StepShock(FloodHorizon)
  \/ StageEnd
  \/ ScheduleEnd
  \/ DrainReset
  \/ Collect

SpecFlood == Init /\ [][NextFlood]_vars

\* Steps in which no firm fails, then the lifecycle operations called
\* directly, in any order and with any argument: between them the direct
\* calls make every change to the registry that the drain of a step makes.
NextCalls ==
  \/ StepShock(MaxCallTime)
  \/ GovAggregate
  \/ StageEnd
  \/ ScheduleEnd
  \/ DrainReset
  \/ Collect
  \/ CallAddFirm
  \/ CallRemoveFirm
  \/ CallAddSubsidiary

SpecCalls == Init /\ [][NextCalls]_vars

\* Firm turnover over several steps.
NextTurnover ==
  \/ StepShock(MaxEntryTime)
  \/ FirmBankruptFew
  \/ StageEnd
  \/ ScheduleEnd
  \/ DrainRemove
  \/ DrainAddSubsidiary
  \/ DrainReset
  \/ Collect

SpecTurnover == Init /\ [][NextTurnover]_vars

(* ------------------------------ properties ---------------------------- *)

Government(r) == governments[r]

\* The firms add_subsidiary has created.
Subsidiaries == {id \in DOMAIN agent : agent[id].parent # 0}

\* The firms that have been removed from their bucket.
RemovedFirms ==
  {id \in DOMAIN agent :
     /\ agent[id].type \in FirmTypeSet
     /\ ~(id \in SeqToSet(firms[agent[id].region][agent[id].type]))}

\* The number of capital firms construction created in a region.
InitialCapitalCount(r) ==
  Cardinality({id \in 1 .. InitGovernmentId :
                 agent[id].type = "CapitalFirm" /\ agent[id].region = r})

NetWorthsOf(ids) == [i \in 1 .. Len(ids) |-> agent[ids[i]].net_worth]

\* C1: population conservation.  Whenever the drain of step() stands
\* between two queued firms or has finished, every region holds as many
\* firms of every type as when the drain began; while a queued firm is
\* removed and not yet replaced, exactly its own type and region are one
\* short.
C1_PopulationConserved ==
  /\ (phase \in {"collect", "idle"} \/ (phase = "drain" /\ drain_pc = "remove"))
       => FirmCounts = pre_drain
  /\ (phase = "drain" /\ drain_pc = "add")
       => LET f == firms_to_remove[drain_region][drain_pos] IN
          FirmCounts = [pre_drain EXCEPT ![RegionOf(f)][TypeOf(f)] = @ - 1]

\* C1 witness: the drain has finished after two firms were removed and
\* replaced, one of them a capital firm and one not.
C1_Witness ==
  /\ phase = "collect"
  /\ NewFirmsSoFar = 2
  /\ \E a, b \in Subsidiaries : IsCapitalFirm(TypeOf(a)) /\ IsConsumptionFirm(TypeOf(b))

\* C2 as stated: when the drain of a region whose queue holds a firm of
\* net worth -10 finishes, the region's bailout cost is 10 plus the
\* contributions of the other firms removed in that drain.
C2_BailoutAfterDrainAsStated ==
  [][(/\ phase = "drain"
      /\ firms_to_remove'[drain_region] = <<>>
      /\ \E i \in 1 .. Len(firms_to_remove[drain_region]) :
           agent[firms_to_remove[drain_region][i]].net_worth = Money(-10))
     => governments'[drain_region].bailout_cost =
          0 - SumSeq(NetWorthsOf(firms_to_remove[drain_region]))]_vars

\* C2 as amended: remove_firm adds the removed firm's net worth, with its
\* sign, to the bailout cost of the firm's region (so -10 for a firm of net
\* worth -10), and when the drain has finished the bailout cost of every
\* region is 0.
C2_BailoutAccruesThenResets ==
  /\ [](phase = "collect" => \A r \in REGIONS : governments[r].bailout_cost = 0)
  /\ [][(phase = "drain" /\ drain_pc = "remove" /\ drain_pc' = "add")
          => LET f == firms_to_remove[drain_region][drain_pos] IN
             governments'[RegionOf(f)].bailout_cost =
               governments[RegionOf(f)].bailout_cost + agent[f].net_worth]_vars

\* C2 witness: a queued firm of net worth -10 has just been removed and
\* the bailout cost of its region stands at -10.
C2_Witness ==
  /\ phase = "drain"
  /\ drain_pc = "add"
  /\ drain_pos = 1
  /\ agent[firms_to_remove[drain_region][1]].net_worth = Money(-10)
  /\ Government(drain_region).bailout_cost = Money(-10)

\* C3: every subsidiary of a capital firm has market share 1 over the
\* number of capital firms construction created in its region, whatever
\* was removed and replaced before.
C3_CapitalSubsidiaryShare ==
  \A id \in Subsidiaries :
    IsCapitalFirm(TypeOf(id))
      => agent[id].market_share = <<1, InitialCapitalCount(RegionOf(id))>>

\* C3 witness: with two initial capital firms, a capital subsidiary created
\* after an earlier replacement, itself the subsidiary of a capital
\* firm, has market share 1/2.
C3_Witness ==
  /\ InitialCapitalCount(0) = 2
  /\ \E a, b \in Subsidiaries :
       /\ a < b
       /\ IsCapitalFirm(TypeOf(a))
       /\ IsCapitalFirm(TypeOf(b))
       /\ agent[b].market_share = <<1, 2>>

\* C4: right after add_subsidiary the new firm's net worth lies between
\* 0.1 and 0.9 times max(avg_net_worth, 1), for the government's average
\* at that moment (net worths are in units of 1/(10 * RngRange)).
C4_SubsidiaryNetWorthBound ==
  (phase = "drain" /\ drain_pc = "remove" /\ drain_pos > 1)
    => LET sub == agent[current_id]
           m   == Max(Government(sub.region).avg_net_worth, 1)
       IN  /\ sub.parent = firms_to_remove[drain_region][drain_pos - 1]
           /\ RngRange * m <= sub.net_worth
           /\ sub.net_worth <= 9 * RngRange * m

\* C4 witness: a subsidiary was just created under a negative average net
\* worth and its net worth is above the lower end of the range.
C4_Witness ==
  /\ phase = "drain"
  /\ drain_pc = "remove"
  /\ drain_pos > 1
  /\ Government(drain_region).avg_net_worth < 0
  /\ agent[current_id].parent # 0
  /\ agent[current_id].net_worth > RngRange

\* The time index the current (or last) step started from.
StepIndex == IF phase = "schedule" THEN time ELSE time - 1

\* C5: from the moment a step has determined the shock, the flood flag is
\* true exactly when the time index the step started from is a key of the
\* schedule, and then the return period is the value mapped to it; a flag
\* set in one step is cleared by the next.
C5_FloodFlagFollowsSchedule ==
  (phase # "idle" \/ time > 0)
    => /\ flood_now = (StepIndex \in DOMAIN FLOOD_WHEN)
       /\ flood_now = TRUE => flood_return = FLOOD_WHEN[StepIndex]

\* C5 witness: the step of time index 80 runs with the flag set and return
\* period 100, after the flag of step 40 was cleared.
C5_Witness ==
  /\ phase = "schedule"
  /\ time = 80
  /\ flood_now = TRUE
  /\ flood_return = 100

\* C6: the phases of a step follow one another in the order shock and
\* scheduler, drain, reporter; the reporter collects once per step, and
\* only when every queue is empty and every removed firm has its
\* replacement.
C6_PhaseOrder ==
  [][/\ phase' # phase
          => <<phase, phase'>> \in {<<"idle", "schedule">>, <<"schedule", "drain">>,
                                    <<"drain", "collect">>, <<"collect", "idle">>}
     /\ collected' # collected
          => /\ phase = "collect"
             /\ collected' = collected + 1
             /\ collected' = time
             /\ \A r \in REGIONS : firms_to_remove[r] = <<>>
             /\ \A f \in RemovedFirms : \E sub \in Subsidiaries : agent[sub].parent = f
     /\ phase' = "idle" => collected' = time']_vars

\* C6 witness: a step is over, the reporter has collected once, and a firm
\* was removed and replaced in that step.
C6_Witness ==
  /\ phase = "idle"
  /\ collected = 1
  /\ RemovedFirms # {}

\* The seed construction gives the stream of a key.
StreamSeed(key) ==
  IF key = "Adaptation" THEN random_seed + (Len(AGENT_TYPES) - 1) + 1
  ELSE random_seed + TypeIndex(key)

\* C7: the stream of the i-th agent type carries seed s + i, the
\* adaptation stream s + (n - 1) + 1, the n + 1 seeds are pairwise
\* distinct, and no operation re-seeds or replaces a stream.
C7_StreamSeeds ==
  LET seed == [key \in StreamKeys |-> RNGs[Generator(key)].seed] IN
  /\ \A key \in StreamKeys : seed[key] = StreamSeed(key)
  /\ \A k1, k2 \in StreamKeys : k1 # k2 => seed[k1] # seed[k2]

\* C7 witness: with base seed 1 the adaptation stream carries seed 6 and
\* the government's 5, after add_subsidiary has drawn from a stream.
C7_Witness ==
  /\ random_seed = 1
  /\ RNGs[Generator("Adaptation")].seed = 6
  /\ RNGs[Generator("Government")].seed = 5
  /\ Subsidiaries # {}

\* C8: the values drawn through a stream key are the values a generator
\* with that key's seed returns when nothing else draws from it, however
\* the draws through the other keys are interleaved.
C8_StreamIndependence ==
  \A key \in StreamKeys :
    drawn[key] = ReferenceDraws(StreamSeed(key), Len(drawn[key]))

\* C8 witness: a service firm's subsidiary drew from the service stream
\* between the capital stream's draws of construction and those of a
\* capital subsidiary created after it.
C8_Witness ==
  /\ current_id = InitGovernmentId + 2
  /\ agent[current_id].parent # 0
  /\ IsCapitalFirm(TypeOf(current_id))
  /\ TypeOf(current_id - 1) = "ServiceFirm"
  /\ Len(drawn["ServiceFirm"]) = N_FIRMS[0]["ServiceFirm"] + 1
  /\ Len(drawn["CapitalFirm"]) = 2 * N_FIRMS[0]["CapitalFirm"] + 2

\* Whether the scheduler has finished the given stage of the given step.
StageCompleted(at) ==
  \/ at[1] < time
  \/ at[1] = time /\ phase = "schedule" /\ at[2] < stage

\* C9: an agent added while stage k of step t runs does not run stage k of
\* step t; the first stage it runs is stage k + 1 of step t, or stage 1 of
\* step t + 1 when k is the last stage, and it does run that stage.
C9_NoMidStageVisibility ==
  \A id \in DOMAIN stage_log :
    LET added == stage_log[id].added
        first == stage_log[id].first
    IN  added[2] >= 1
          => /\ first # <<>> => first = NextStage(added)
             /\ StageCompleted(NextStage(added)) => first # <<>>

\* C9 witness: a firm added during the last stage of a step has run stage
\* 1 of the next step as its first stage.
C9_Witness ==
  \E id \in DOMAIN stage_log :
    /\ stage_log[id].added = <<0, N_STAGES>>
    /\ stage_log[id].first = <<1, 1>>

\* C10: the type buckets and the scheduler's membership change only while
\* step() is in its drain loop, so they are the same from the start to the
\* end of the scheduler phase.
C10_RegistryChangesOnlyInDrain ==
  [][(firms' # firms \/ sched' # sched) => (phase = "drain" /\ phase' = "drain")]_vars

\* C10 witness: the scheduler is in its last stage while a firm queued for
\* removal is still in its bucket and still registered.
C10_Witness ==
  /\ phase = "schedule"
  /\ stage = N_STAGES
  /\ \E r \in REGIONS : \E i \in 1 .. Len(firms_to_remove[r]) :
       LET f == firms_to_remove[r][i] IN
       /\ Registered(f)
       /\ f \in SeqToSet(firms[r][TypeOf(f)])

\* A lifecycle operation ran in this transition.
CallMade == call'.n = call.n + 1

\* The number of times x occurs in the list s.
Count(s, x) == Cardinality({i \in 1 .. Len(s) : s[i] = x})

\* C11: remove_firm for a firm that is not in its bucket or not in the
\* scheduler ends with an error and leaves every bucket and the scheduler's
\* membership as they were.
C11_RemoveUnregisteredRaises ==
  [][(/\ CallMade
      /\ call'.op = "remove_firm"
      /\ ~(InBucket(call'.firm) /\ Registered(call'.firm)))
     => /\ call'.raised # "none"
        /\ firms' = firms
        /\ sched' = sched]_vars

\* C11 witness: remove_firm was called a second time for a firm the first
\* call removed; it raised, and every other firm is still registered.
C11_Witness ==
  /\ call.n = 2
  /\ call.op = "remove_firm"
  /\ call.raised = "ValueError"
  /\ RemovedFirms = {call.firm}
  /\ \A f \in FirmIds \ {call.firm} : InBucket(f) /\ Registered(f)

\* C12: add_subsidiary for an agent that is neither a capital nor a
\* consumption firm ends with an error, creates no agent, adds nothing to
\* a bucket or to the scheduler, gives no supplier a client and leaves the
\* new-firm resource counters as they were.
C12_OtherTypeFailsFast ==
  [][(/\ CallMade
      /\ call'.op = "add_subsidiary"
      /\ ~SubsidiaryCreated(TypeOf(call'.firm)))
     => /\ call'.raised # "none"
        /\ current_id' = current_id
        /\ firms' = firms
        /\ sched' = sched
        /\ \A id \in DOMAIN agent : agent'[id].clients = agent[id].clients
        /\ \A r \in REGIONS :
             governments'[r].new_firms_resources = governments[r].new_firms_resources]_vars

\* C12 witness: add_subsidiary was called for a household while the
\* government's average net worth was not zero, and raised.
C12_Witness ==
  /\ call.op = "add_subsidiary"
  /\ TypeOf(call.firm) = "Household"
  /\ call.raised = "ValueError"
  /\ governments[RegionOf(call.firm)].avg_net_worth = 4
  /\ Subsidiaries = {}

\* Every firm queued in region r has been removed from its bucket and has a
\* subsidiary.
QueueProcessed(r) ==
  \A i \in 1 .. Len(firms_to_remove[r]) :
    LET f == firms_to_remove[r][i] IN
    /\ ~InBucket(f)
    /\ \E s \in Subsidiaries : agent[s].parent = f

\* C13: while the drain of step() runs, a government's two counters change
\* in one of three ways only: remove_firm of the queued firm in turn adds
\* that firm's net worth to the bailout cost, add_subsidiary for it adds the
\* average net worth to the new-firm counter, or both are set to zero, and
\* this last only when every firm queued in the region has been removed and
\* replaced.  No reset stands between two queued firms, so the counters
\* carry the contributions of the firms processed before the one in turn.
C13_ResetOnlyAfterQueueDrained ==
  [][phase = "drain" =>
       \A r \in REGIONS :
         LET gov == governments[r]
             gov_after == governments'[r]
             f == firms_to_remove[r][drain_pos]
         IN
         \/ gov_after = gov
         \/ /\ drain_region = r
            /\ drain_pc = "remove"
            /\ drain_pos <= Len(firms_to_remove[r])
            /\ gov_after = [gov EXCEPT !.bailout_cost = @ + agent[f].net_worth]
         \/ /\ drain_region = r
            /\ drain_pc = "add"
            /\ gov_after = [gov EXCEPT !.new_firms_resources = @ + Money(gov.avg_net_worth)]
         \/ /\ drain_region = r
            /\ QueueProcessed(r)
            /\ drain_pos = Len(firms_to_remove[r]) + 1
            /\ gov_after = [gov EXCEPT !.bailout_cost = 0, !.new_firms_resources = 0]]_vars

\* C13 witness: the second queued firm of a region has been removed and is
\* not yet replaced, and the counters hold the net worth of both removed
\* firms and the allocation for the first subsidiary.
C13_Witness ==
  /\ phase = "drain"
  /\ drain_pc = "add"
  /\ drain_pos = 2
  /\ LET r == drain_region
         q == firms_to_remove[r]
     IN
     /\ Len(q) = 2
     /\ governments[r].avg_net_worth = 4
     /\ governments[r].new_firms_resources = Money(4)
     /\ agent[q[1]].net_worth # 0
     /\ governments[r].bailout_cost = agent[q[1]].net_worth + agent[q[2]].net_worth

\* C14: registry and scheduler agree.  After construction and any sequence
\* of steps and direct calls of add_firm, remove_firm and add_subsidiary, a
\* firm is in the bucket of its region and type exactly when it is
\* registered in the scheduler, it stands there once, and it stands in no
\* other bucket; an agent that is not a firm stands in no bucket.
C14_RegistryAgrees ==
  /\ \A id \in FirmIds :
       /\ InBucket(id) <=> Registered(id)
       /\ \A r \in REGIONS : \A t \in FirmTypeSet :
            Count(firms[r][t], id) <=
              (IF r = RegionOf(id) /\ t = TypeOf(id) THEN 1 ELSE 0)
  /\ \A id \in DOMAIN agent \ FirmIds :
       \A r \in REGIONS : \A t \in FirmTypeSet : Count(firms[r][t], id) = 0

\* C14 witness: a direct call has created a firm that is in its bucket and
\* registered, and the next direct remove_firm has taken another firm out
\* of both.
C14_Witness ==
  /\ call.direct = 2
  /\ call.op = "remove_firm"
  /\ call.raised = "none"
  /\ ~InBucket(call.firm)
  /\ ~Registered(call.firm)
  /\ RemovedFirms = {call.firm}
  /\ \E s \in FirmIds :
       /\ s > InitGovernmentId
       /\ InBucket(s)
       /\ Registered(s)

\* C15: an add_subsidiary that returns adds the average net worth of the
\* failed firm's government, as it stands at the call, to that government's
\* new-firm counter, whatever net worth the subsidiary was given, and
\* changes nothing else of any government.
C15_ResourcesByAverage ==
  [][(/\ CallMade
      /\ call'.op = "add_subsidiary"
      /\ call'.raised = "none")
     => LET r == RegionOf(call'.firm) IN
        governments' =
          [governments EXCEPT
             ![r].new_firms_resources = @ + Money(governments[r].avg_net_worth)]]_vars

\* C15 witness: add_subsidiary has returned under an average net worth of
\* 4; the counter holds 4 while the subsidiary's net worth is another value.
C15_Witness ==
  /\ call.op = "add_subsidiary"
  /\ call.raised = "none"
  /\ agent[current_id].parent = call.firm
  /\ LET gov == governments[RegionOf(call.firm)] IN
       /\ gov.avg_net_worth = 4
       /\ gov.new_firms_resources = Money(4)
       /\ agent[current_id].net_worth # Money(4)
       /\ agent[current_id].net_worth > 0

\* C16: when add_subsidiary has returned, the new firm's supplier is the
\* capital producer the government returned as best, the new firm's offers
\* have that supplier as their only key, mapped to that supplier's brochure,
\* and the supplier's clients hold the new firm once, as their last entry,
\* after the clients they held before.
C16_SupplierIsBestCap ==
  [][(/\ CallMade
      /\ call'.op = "add_subsidiary"
      /\ call'.raised = "none")
     => LET sub == current_id'
            best_cap == call'.best_cap
        IN
        /\ sub = current_id + 1
        /\ best_cap \in SeqToSet(firms[RegionOf(call'.firm)]["CapitalFirm"])
        /\ agent'[sub].supplier = best_cap
        /\ DOMAIN agent'[sub].offers = {best_cap}
        /\ agent'[sub].offers[best_cap] = Brochure(best_cap)
        /\ agent'[best_cap].clients = Append(agent[best_cap].clients, sub)
        /\ Count(agent'[best_cap].clients, sub) = 1]_vars

\* C16 witness: add_subsidiary has returned a consumption firm's subsidiary
\* whose supplier, the government's choice, is not the failed firm's own
\* supplier.
C16_Witness ==
  /\ call.op = "add_subsidiary"
  /\ call.raised = "none"
  /\ agent[current_id].parent = call.firm
  /\ IsConsumptionFirm(TypeOf(call.firm))
  /\ agent[current_id].supplier = call.best_cap
  /\ agent[call.firm].supplier # call.best_cap
  /\ Count(agent[call.best_cap].clients, current_id) = 1

\* C17: add_subsidiary for a failed firm of type T draws through T's stream
\* only, once, or twice when T is the capital producer; it leaves the
\* generator and the draws of every other type's stream and of the
\* adaptation stream as they were, and remove_firm leaves those of every
\* stream as they were.
C17_StreamDiscipline ==
  [][(/\ CallMade
      /\ call'.op \in {"add_subsidiary", "remove_firm"})
     => LET T == TypeOf(call'.firm)
            own == IF call'.op = "add_subsidiary" THEN {T} ELSE {}
        IN
        /\ \A key \in StreamKeys \ own :
             /\ RNGs'[Generator(key)] = RNGs[Generator(key)]
             /\ drawn'[key] = drawn[key]
        /\ \A key \in own :
             LET n == IF call'.raised # "none" THEN 1
                      ELSE IF IsCapitalFirm(T) THEN 2 ELSE 1
             IN
             /\ Len(drawn'[key]) = Len(drawn[key]) + n
             /\ SubSeq(drawn'[key], 1, Len(drawn[key])) = drawn[key]
             /\ RNGs'[Generator(key)].state = drawn'[key][Len(drawn'[key])]]_vars

\* C17 witness: add_subsidiary has returned for a service firm; the service
\* stream is one draw past construction, the capital stream and the
\* adaptation stream stand where construction left them.
C17_Witness ==
  /\ call.op = "add_subsidiary"
  /\ call.raised = "none"
  /\ TypeOf(call.firm) = "ServiceFirm"
  /\ agent[current_id].parent = call.firm
  /\ Len(drawn["ServiceFirm"]) = N_FIRMS[0]["ServiceFirm"] + 1
  /\ Len(drawn["CapitalFirm"]) = 2 * N_FIRMS[0]["CapitalFirm"]
  /\ drawn["Adaptation"] = <<>>

\* C18: when step() hands over to the reporter's collect, the bailout cost
\* and the new-firm counter of every government are zero, also when firms
\* were removed and replaced in the drain just before.
C18_CollectSeesZeroCounters ==
  phase = "collect"
    => \A r \in REGIONS :
         /\ governments[r].bailout_cost = 0
         /\ governments[r].new_firms_resources = 0

\* C18 witness: collect is about to run in a step whose drain removed two
\* firms of negative net worth and replaced them under an average net worth
\* of 4.
C18_Witness ==
  /\ phase = "collect"
  /\ Cardinality(RemovedFirms) = 2
  /\ \A f \in RemovedFirms : agent[f].net_worth < 0
  /\ \A r \in REGIONS : governments[r].avg_net_worth = 4
  /\ Cardinality({s \in Subsidiaries : stage_log[s].added = <<time, 0>>}) = 2

\* The subsidiaries created for a firm.
SubsidiariesOf(f) == {s \in Subsidiaries : agent[s].parent = f}

\* The position in region r's queue from which firms are still to be
\* removed.
FirstToRemove(r) ==
  IF phase = "drain" /\ drain_region = r
  THEN IF drain_pc = "add" THEN drain_pos + 1 ELSE drain_pos
  ELSE 1

\* C19: when a step has ended every region's queue is empty.  A queued
\* firm is removed once and replaced by one subsidiary in the drain of the
\* step that queued it: every firm still to be removed is in its bucket,
\* every firm that was removed has exactly one subsidiary once the drain
\* has passed it, and no later drain finds it in a queue.
C19_QueueEmptyAfterStep ==
  /\ phase \in {"collect", "idle"} =>
       \A r \in REGIONS : firms_to_remove[r] = <<>>
  /\ \A r \in REGIONS :
       \A i \in FirstToRemove(r) .. Len(firms_to_remove[r]) :
         LET f == firms_to_remove[r][i] IN
         /\ InBucket(f)
         /\ Registered(f)
         /\ SubsidiariesOf(f) = {}
         /\ Count(firms_to_remove[r], f) = 1
  /\ \A f \in RemovedFirms :
       IF phase = "drain" /\ drain_pc = "add"
          /\ f = firms_to_remove[drain_region][drain_pos]
       THEN SubsidiariesOf(f) = {}
       ELSE Cardinality(SubsidiariesOf(f)) = 1

\* C19 witness: a second step has ended; the firm its predecessor queued,
\* removed and replaced is still out of its bucket, has its one subsidiary,
\* and is in no queue.
C19_Witness ==
  /\ phase = "idle"
  /\ time = 2
  /\ collected = 2
  /\ \A r \in REGIONS : firms_to_remove[r] = <<>>
  /\ \E f \in RemovedFirms :
       \E s \in SubsidiariesOf(f) : stage_log[s].added = <<1, 0>>

\* The subsidiaries the drain of the current step has created.
CreatedInThisDrain ==
  {s \in Subsidiaries : stage_log[s].added = <<time, 0>>}

\* C20, as stated: when the drain of a step has ended, the supplier of
\* every subsidiary created in that drain is a capital producer that is
\* still in its region's bucket and still registered in the scheduler.
C20_SupplierStillRegistered ==
  phase = "collect"
    => \A s \in CreatedInThisDrain :
         LET supplier == agent[s].supplier IN
         /\ supplier \in FirmIds
         /\ IsCapitalFirm(TypeOf(supplier))
         /\ InBucket(supplier)
         /\ Registered(supplier)

\* C20 failing state: the drain has ended; a subsidiary created in it took
\* as supplier a capital producer that was queued behind its parent, was
\* registered when the government returned it, and was removed and
\* replaced later in the same drain.
C20_DanglingSupplier ==
  /\ phase = "collect"
  /\ \E s \in CreatedInThisDrain :
       LET supplier == agent[s].supplier IN
       /\ IsCapitalFirm(TypeOf(supplier))
       /\ ~InBucket(supplier)
       /\ ~Registered(supplier)
       /\ \E later \in SubsidiariesOf(supplier) :
            /\ later \in CreatedInThisDrain
            /\ later > s

====
